---------------------------- MODULE Spec2Model ----------------------------
(***************************************************************************)
(* Model of backend/lambda/lambda_function.py: an AWS Lambda handler that  *)
(* fetches the latest message of a Slack channel, asks Bedrock for a       *)
(* summary and posts the summary to another Slack channel.                 *)
(*                                                                         *)
(* A Python str is a sequence of tokens (a token stands for one or more    *)
(* characters that are never split).  Non-ASCII text of the source is      *)
(* written with Python's \uXXXX escapes inside the tokens.                 *)
(***************************************************************************)
EXTENDS Naturals, Sequences, FiniteSets

VARIABLES
    environ,          \* os.environ["SLACK_BOT_TOKEN"]: "absent" or the token
    proc,             \* the process: "cold", "ready", "init_failed"
    slack_bot_token,  \* module global read at import time ("unset" before)
    tokenReads,       \* number of reads of os.environ made so far
    pc,               \* position inside lambda_handler
    message_text,     \* local of lambda_handler
    summary,          \* local of lambda_handler
    raised,           \* the exception in flight inside the try block
    calls,            \* external calls made by the current invocation, in order
    result,           \* value returned by the last finished invocation
    outbox,           \* messages the chat service delivered (all invocations)
    prev,             \* calls and result of the invocation before the current one
    nInv              \* invocations started in this process

vars == <<environ, proc, slack_bot_token, tokenReads, pc, message_text,
          summary, raised, calls, result, outbox, prev, nInv>>

(***************************************************************************)
(* Bounds of the model.                                                    *)
(***************************************************************************)
MaxInvocations == 2

(***************************************************************************)
(* Python values: a tagged record [t, v].                                  *)
(***************************************************************************)
PyNone == [t |-> "None", v |-> <<>>]

PyStr(s) == [t |-> "str", v |-> s]

PyStrOf(val) ==
    \* str(x) as used by an f-string: a str is itself, None is "None"
    IF val.t = "str" THEN val.v ELSE <<"None">>

IsNotNone(val) ==
    \* variant of Truthy: `if message_text is None`, an empty str passes
    val.t = "str"

Truthy(val) ==
    \* Python truthiness of a value that is None or a str
    val.t = "str" /\ val.v # <<>>

Contains(s, sub) ==
    \E i \in 0..(Len(s) - Len(sub)) : SubSeq(s, i + 1, i + Len(sub)) = sub

RECURSIVE Flatten(_)
Flatten(ss) ==
    IF ss = <<>> THEN <<>> ELSE Head(ss) \o Flatten(Tail(ss))

(***************************************************************************)
(* json.dumps of a str: quotes around it, and the characters JSON cannot   *)
(* carry raw are escaped.                                                  *)
(***************************************************************************)
JsonEscape(tok) ==
    IF tok = "\n" THEN <<"\\", "n">>
    ELSE IF tok = "\"" THEN <<"\\", "\"">>
    ELSE IF tok = "\\" THEN <<"\\", "\\">>
    ELSE <<tok>>

JsonDumps(s) ==
    <<"\"">> \o Flatten([i \in 1..Len(s) |-> JsonEscape(s[i])]) \o <<"\"">>

RECURSIVE JsonUnescape(_)
JsonUnescape(q) ==
    IF q = <<>> THEN <<>>
    ELSE IF Head(q) = "\\" /\ Len(q) >= 2
         THEN <<IF q[2] = "n" THEN "\n" ELSE q[2]>> \o JsonUnescape(SubSeq(q, 3, Len(q)))
         ELSE <<Head(q)>> \o JsonUnescape(Tail(q))

JsonLoads(s) ==
    \* json.loads of a JSON string literal
    IF Len(s) >= 2 /\ s[1] = "\"" /\ s[Len(s)] = "\""
    THEN JsonUnescape(SubSeq(s, 2, Len(s) - 1))
    ELSE <<"<not a JSON string>">>

(***************************************************************************)
(* Fixed identifiers and texts of the source.                              *)
(***************************************************************************)
INPUT_CHANNEL_ID == "C091S67LDEJ"

OUTPUT_CHANNEL_ID == "C09344CE82C"

ModelId == "anthropic.claude-3-7-sonnet-20250219-v1:0"

MaxTokens == 1000

PromptHead ==
    <<"Human: \\u4ee5\\u4e0b\\u306eSlack\\u306e\\u6295\\u7a3f\\u3092\\u3001\\u91cd\\u8981\\u306a\\u30dd\\u30a4\\u30f3\\u30c8\\u3092\\u7b87\\u6761\\u66f8\\u304d\\u3067\\u7c21\\u6f54\\u306b\\u8981\\u7d04\\u3057\\u3066\\u304f\\u3060\\u3055\\u3044\\u3002",
      "\n", "\n", "<\\u6295\\u7a3f\\u5185\\u5bb9>", "\n">>

PromptTail ==
    <<"\n", "</\\u6295\\u7a3f\\u5185\\u5bb9>", "\n", "\n", "Assistant:">>

ResultPrefix ==
    <<"\\u3010AI\\u306b\\u3088\\u308b\\u8981\\u7d04\\u3011", "\n", ">>> ">>

NoNewMessages == <<"No new messages to process.">>

SuccessfullyProcessed == <<"Successfully processed message.">>

ErrorOccurred == <<"An error occurred: ">>

(***************************************************************************)
(* Exceptions and the results of calls.                                    *)
(***************************************************************************)
NoExc == [kind |-> "none", msg |-> <<>>]

SlackApiError ==
    [kind |-> "SlackApiError",
     msg  |-> <<"The request to the Slack API failed.", "\n",
                "The server responded with: {'ok': False}">>]

TransportError ==
    [kind |-> "URLError", msg |-> <<"<urlopen error timed out>">>]

ClientError ==
    [kind |-> "ClientError",
     msg  |-> <<"An error occurred (ThrottlingException) when calling the InvokeModel operation">>]

JSONDecodeError ==
    [kind |-> "JSONDecodeError", msg |-> <<"Expecting value: line 1 column 1 (char 0)">>]

KeyErrorText == [kind |-> "KeyError", msg |-> <<"'text'">>]

KeyErrorZero == [kind |-> "KeyError", msg |-> <<"0">>]

AttributeError ==
    [kind |-> "AttributeError", msg |-> <<"object has no attribute 'get'">>]

TypeError ==
    [kind |-> "TypeError", msg |-> <<"'NoneType' object is not subscriptable">>]

IndexError == [kind |-> "IndexError", msg |-> <<"list index out of range">>]

Returns(val) == [exc |-> NoExc, ret |-> val]

Raises(e) == [exc |-> e, ret |-> PyNone]

(***************************************************************************)
(* What the external services can answer.                                  *)
(***************************************************************************)
Texts == {<<>>, <<"a">>, <<"b", "\n", "a">>}

Messages ==
    \* a message of the channel; has_text = FALSE: the message has no "text" key
    {[has_text |-> TRUE, text |-> t] : t \in Texts}
        \cup {[has_text |-> FALSE, text |-> <<>>]}

RECURSIVE SeqsUpTo(_, _)
SeqsUpTo(S, n) ==
    IF n = 0 THEN {<<>>}
    ELSE LET shorter == SeqsUpTo(S, n - 1)
         IN  shorter \cup {Append(q, x) : q \in shorter, x \in S}

HistoryResponses(limit) ==
    \* conversations_history returns at most `limit` messages, newest first
    {[exc |-> e, messages |-> <<>>] : e \in {SlackApiError, TransportError}}
        \cup {[exc |-> NoExc, messages |-> ms] : ms \in SeqsUpTo(Messages, limit)}

Summaries == {<<"-", "x">>, <<"y">>}

BedrockShapes ==
    {"not_json", "null", "no_content", "content_null", "content_empty",
     "segment_no_text"}

BedrockResponses ==
    \* exc: invoke_model raised; otherwise the shape of the response body, and
    \* for the shape "segments" the texts of its content segments
    {[exc |-> ClientError, shape |-> "none", texts |-> <<>>]}
        \cup {[exc |-> NoExc, shape |-> sh, texts |-> <<>>] : sh \in BedrockShapes}
        \cup {[exc |-> NoExc, shape |-> "segments", texts |-> <<s>>] : s \in Summaries}
        \cup {[exc |-> NoExc, shape |-> "segments", texts |-> <<p[1], p[2]>>] :
                  p \in {q \in Summaries \X Summaries : q[1] # q[2]}}

PostResponses == {NoExc, SlackApiError, TransportError}

(***************************************************************************)
(* get_latest_message_from_slack                                           *)
(***************************************************************************)
HistoryLimit == 1

HistoryRequest(channel_id) ==
    [channel |-> channel_id, limit |-> HistoryLimit, inclusive |-> TRUE]

get_latest_message_unchecked(resp) ==
    \* variant of get_latest_message_from_slack: messages[0] is read without
    \* the `if response["messages"]` test
    IF resp.exc # NoExc
    THEN Raises(resp.exc)
    ELSE IF resp.messages = <<>>
         THEN Raises(IndexError)
         ELSE IF resp.messages[1].has_text
              THEN Returns(PyStr(resp.messages[1].text))
              ELSE Raises(KeyErrorText)

get_latest_message_from_slack(resp) ==
    IF resp.exc # NoExc
    THEN Raises(resp.exc)            \* SlackApiError is logged and re-raised
    ELSE IF resp.messages # <<>>
         THEN IF resp.messages[1].has_text
              THEN Returns(PyStr(resp.messages[1].text))
              ELSE Raises(KeyErrorText)
         ELSE Returns(PyNone)

(***************************************************************************)
(* invoke_bedrock_model                                                    *)
(***************************************************************************)
Prompt(text_to_summarize) == PromptHead \o text_to_summarize \o PromptTail

InvokeRequest(text_to_summarize) ==
    \* the body is JSON: the prompt travels as a JSON string
    [modelId     |-> ModelId,
     accept      |-> "application/json",
     contentType |-> "application/json",
     body        |-> [anthropic_version |-> "bedrock-2023-05-31",
                      max_tokens |-> MaxTokens,
                      messages |->
                          <<[role |-> "user",
                             content |->
                                 <<[type |-> "text",
                                    text |-> JsonDumps(Prompt(text_to_summarize))]>>]>>]]

PyDict(f) == [t |-> "dict", v |-> f]

PyList(q) == [t |-> "list", v |-> q]

TextSegment(s) == PyDict([type |-> PyStr(<<"text">>), text |-> PyStr(s)])

JsonLoadsBody(resp) ==
    \* json.loads(response.get('body').read()) for a body that is JSON
    CASE resp.shape = "null"            -> PyNone
      [] resp.shape = "no_content"      -> PyDict([type |-> PyStr(<<"message">>)])
      [] resp.shape = "content_null"    -> PyDict([content |-> PyNone])
      [] resp.shape = "content_empty"   -> PyDict([content |-> PyList(<<>>)])
      [] resp.shape = "segment_no_text" ->
             PyDict([content |-> PyList(<<PyDict([type |-> PyStr(<<"tool_use">>)])>>)])
      [] resp.shape = "segments"        ->
             PyDict([content |->
                 PyList([i \in 1..Len(resp.texts) |-> TextSegment(resp.texts[i])])])

DictGet(d, key) ==
    \* d.get(key) on a dict
    IF key \in DOMAIN d.v THEN d.v[key] ELSE PyNone

GetAttrGet(val, key) ==
    \* val.get(key): only a dict has the method
    IF val.t = "dict" THEN Returns(DictGet(val, key)) ELSE Raises(AttributeError)

IndexZero(val) ==
    \* val[0]
    CASE val.t = "list" -> IF Len(val.v) > 0 THEN Returns(val.v[1]) ELSE Raises(IndexError)
      [] val.t = "str"  -> IF Len(val.v) > 0 THEN Returns(PyStr(<<val.v[1]>>))
                                             ELSE Raises(IndexError)
      [] val.t = "dict" -> Raises(KeyErrorZero)
      [] OTHER          -> Raises(TypeError)

ExtractSummary(response_body) ==
    \* response_body.get('content')[0].get('text')
    LET content == GetAttrGet(response_body, "content")
    IN  IF content.exc # NoExc THEN content
        ELSE LET first == IndexZero(content.ret)
             IN  IF first.exc # NoExc THEN first
                 ELSE GetAttrGet(first.ret, "text")

invoke_bedrock_model_swallow(resp) ==
    \* variant of invoke_bedrock_model: the except clause returns None instead
    \* of re-raising
    IF resp.exc # NoExc THEN Returns(PyNone)
    ELSE IF resp.shape = "not_json" THEN Returns(PyNone)
    ELSE LET r == ExtractSummary(JsonLoadsBody(resp))
         IN  IF r.exc # NoExc THEN Returns(PyNone) ELSE r

invoke_bedrock_model(resp) ==
    IF resp.exc # NoExc THEN Raises(resp.exc)
    ELSE IF resp.shape = "not_json" THEN Raises(JSONDecodeError)
    ELSE ExtractSummary(JsonLoadsBody(resp))

(***************************************************************************)
(* post_message_to_slack                                                   *)
(***************************************************************************)
PostRequest(channel_id, text) == [channel |-> channel_id, text |-> text]

post_message_to_slack(resp) ==
    IF resp # NoExc THEN Raises(resp) ELSE Returns(PyNone)

(***************************************************************************)
(* The process and lambda_handler.                                         *)
(***************************************************************************)
Tokens == {"xoxb-1"}

NoResult == [statusCode |-> 0, body |-> <<>>]

Response(status, text) == [statusCode |-> status, body |-> JsonDumps(text)]

NoInvocation == [valid |-> FALSE, calls |-> <<>>, result |-> NoResult]

Call(api, req, resp, exc) ==
    \* one external call: its request, the service's answer, and the exception
    \* the wrapper function ended with (NoExc when it returned)
    [api |-> api, req |-> req, resp |-> resp, exc |-> exc]

ResultTextNoQuote(summary_value) ==
    \* variant of ResultText: the ">>> " marker is left out of the template
    SubSeq(ResultPrefix, 1, 2) \o PyStrOf(summary_value)

ResultText(summary_value) == ResultPrefix \o PyStrOf(summary_value)

NoMessageOrSeen ==
    \* variant of NoMessage: a message the previous invocation summarised is
    \* skipped
    \/ ~Truthy(message_text)
    \/ /\ prev.valid
       /\ prev.result.statusCode = 200
       /\ Len(prev.calls) = 3
       /\ message_text = PyStr(prev.calls[1].resp.messages[1].text)

NoMessage == ~Truthy(message_text)

Init ==
    /\ environ \in Tokens \cup {"absent"}
    /\ proc = "cold"
    /\ slack_bot_token = "unset"
    /\ tokenReads = 0
    /\ pc = "idle"
    /\ message_text = PyNone
    /\ summary = PyNone
    /\ raised = NoExc
    /\ calls = <<>>
    /\ result = NoResult
    /\ outbox = <<>>
    /\ prev = NoInvocation
    /\ nInv = 0

ModuleInitLenient ==
    \* variant of ModuleInit: os.environ.get, a missing token is not an error
    /\ proc = "cold"
    /\ tokenReads' = tokenReads + 1
    /\ proc' = "ready"
    /\ slack_bot_token' = environ
    /\ UNCHANGED <<environ, pc, message_text, summary, raised, calls, result,
                   outbox, prev, nInv>>

ModuleInit ==
    \* import of the module: the token is read, or the import fails
    /\ proc = "cold"
    /\ tokenReads' = tokenReads + 1
    /\ IF environ = "absent"
       THEN proc' = "init_failed" /\ UNCHANGED slack_bot_token
       ELSE proc' = "ready" /\ slack_bot_token' = environ
    /\ UNCHANGED <<environ, pc, message_text, summary, raised, calls, result,
                   outbox, prev, nInv>>

Invoke ==
    \* the platform calls lambda_handler(event, context)
    /\ proc = "ready"
    /\ pc \in {"idle", "done"}
    /\ nInv < MaxInvocations
    /\ nInv' = nInv + 1
    /\ prev' = IF pc = "done"
               THEN [valid |-> TRUE, calls |-> calls, result |-> result]
               ELSE prev
    /\ pc' = "fetch"
    /\ message_text' = PyNone
    /\ summary' = PyNone
    /\ raised' = NoExc
    /\ calls' = <<>>
    /\ result' = NoResult
    /\ UNCHANGED <<environ, proc, slack_bot_token, tokenReads, outbox>>

FetchStep ==
    \* message_text = get_latest_message_from_slack(INPUT_CHANNEL_ID)
    /\ pc = "fetch"
    /\ \E resp \in HistoryResponses(HistoryLimit) :
          LET r == get_latest_message_from_slack(resp)
          IN  /\ calls' = Append(calls, Call("conversations_history",
                                             HistoryRequest(INPUT_CHANNEL_ID), resp, r.exc))
              /\ IF r.exc # NoExc
                 THEN raised' = r.exc /\ pc' = "except" /\ UNCHANGED message_text
                 ELSE message_text' = r.ret /\ pc' = "check" /\ UNCHANGED raised
    /\ UNCHANGED <<environ, proc, slack_bot_token, tokenReads, summary, result,
                   outbox, prev, nInv>>

CheckStep ==
    \* if not message_text: return the no-op response
    /\ pc = "check"
    /\ IF NoMessage
       THEN result' = Response(200, NoNewMessages) /\ pc' = "done"
       ELSE pc' = "infer" /\ UNCHANGED result
    /\ UNCHANGED <<environ, proc, slack_bot_token, tokenReads, message_text,
                   summary, raised, calls, outbox, prev, nInv>>

InferStep ==
    \* summary = invoke_bedrock_model(message_text)
    /\ pc = "infer"
    /\ \E resp \in BedrockResponses :
          LET r == invoke_bedrock_model(resp)
          IN  /\ calls' = Append(calls, Call("invoke_model",
                                             InvokeRequest(message_text.v), resp, r.exc))
              /\ IF r.exc # NoExc
                 THEN raised' = r.exc /\ pc' = "except" /\ UNCHANGED summary
                 ELSE summary' = r.ret /\ pc' = "post" /\ UNCHANGED raised
    /\ UNCHANGED <<environ, proc, slack_bot_token, tokenReads, message_text,
                   result, outbox, prev, nInv>>

PostStepRetry ==
    \* variant of PostStep: a failed post is tried once more
    /\ pc = "post"
    /\ \E resp \in PostResponses :
          LET req == PostRequest(OUTPUT_CHANNEL_ID, ResultText(summary))
              r   == post_message_to_slack(resp)
          IN  /\ calls' = Append(calls, Call("chat_postMessage", req, resp, r.exc))
              /\ IF r.exc # NoExc
                 THEN /\ IF Len(calls) < 3
                         THEN pc' = "post" /\ UNCHANGED raised
                         ELSE pc' = "except" /\ raised' = r.exc
                      /\ UNCHANGED outbox
                 ELSE /\ outbox' = Append(outbox, [channel |-> req.channel,
                                                   text |-> req.text, inv |-> nInv])
                      /\ pc' = "success"
                      /\ UNCHANGED raised
    /\ UNCHANGED <<environ, proc, slack_bot_token, tokenReads, message_text,
                   summary, result, prev, nInv>>

PostStep ==
    \* post_message_to_slack(OUTPUT_CHANNEL_ID, result_text); the chat service
    \* delivers the message exactly when chat_postMessage returns
    /\ pc = "post"
    /\ \E resp \in PostResponses :
          LET req == PostRequest(OUTPUT_CHANNEL_ID, ResultText(summary))
              r   == post_message_to_slack(resp)
          IN  /\ calls' = Append(calls, Call("chat_postMessage", req, resp, r.exc))
              /\ IF r.exc # NoExc
                 THEN raised' = r.exc /\ pc' = "except" /\ UNCHANGED outbox
                 ELSE /\ outbox' = Append(outbox, [channel |-> req.channel,
                                                   text |-> req.text, inv |-> nInv])
                      /\ pc' = "success"
                      /\ UNCHANGED raised
    /\ UNCHANGED <<environ, proc, slack_bot_token, tokenReads, message_text,
                   summary, result, prev, nInv>>

ReturnSuccessRaises ==
    \* variant of ReturnSuccess: building the response raises after the post
    /\ pc = "success"
    /\ raised' = TypeError
    /\ pc' = "except"
    /\ UNCHANGED <<environ, proc, slack_bot_token, tokenReads, message_text,
                   summary, calls, result, outbox, prev, nInv>>

ReturnSuccess ==
    /\ pc = "success"
    /\ result' = Response(200, SuccessfullyProcessed)
    /\ pc' = "done"
    /\ UNCHANGED <<environ, proc, slack_bot_token, tokenReads, message_text,
                   summary, raised, calls, outbox, prev, nInv>>

ExceptStepNoDescription ==
    \* variant of ExceptStep: the body does not carry str(e)
    /\ pc = "except"
    /\ result' = Response(500, ErrorOccurred)
    /\ pc' = "done"
    /\ UNCHANGED <<environ, proc, slack_bot_token, tokenReads, message_text,
                   summary, raised, calls, outbox, prev, nInv>>

ExceptStep ==
    \* except Exception as e: return the 500 response
    /\ pc = "except"
    /\ result' = Response(500, ErrorOccurred \o raised.msg)
    /\ pc' = "done"
    /\ UNCHANGED <<environ, proc, slack_bot_token, tokenReads, message_text,
                   summary, raised, calls, outbox, prev, nInv>>

Next ==
    \/ ModuleInit
    \/ Invoke
    \/ FetchStep
    \/ CheckStep
    \/ InferStep
    \/ PostStep
    \/ ReturnSuccess
    \/ ExceptStep

Spec == Init /\ [][Next]_vars

(***************************************************************************)
(* Vocabulary of the properties.  The outcomes are written out in full,    *)
(* as a caller sees them after decoding the JSON body.                     *)
(***************************************************************************)
IsSuccess(r) ==
    r.statusCode = 200 /\ JsonLoads(r.body) = <<"Successfully processed message.">>

IsNoOp(r) ==
    r.statusCode = 200 /\ JsonLoads(r.body) = <<"No new messages to process.">>

IsFailure(r, e) ==
    r.statusCode = 500 /\ JsonLoads(r.body) = <<"An error occurred: ">> \o e.msg

MadeCall(api) == \E i \in 1..Len(calls) : calls[i].api = api

ServiceRaised(c) ==
    \* the remote call itself raised
    IF c.api = "chat_postMessage" THEN c.resp # NoExc ELSE c.resp.exc # NoExc

StepRaised(c) == c.exc # NoExc \/ ServiceRaised(c)

FetchCompleted == Len(calls) >= 1 /\ ~StepRaised(calls[1])

FetchedEmptyChannel ==
    \* the chat service answered the fetch, with zero messages
    /\ Len(calls) >= 1
    /\ ~ServiceRaised(calls[1])
    /\ calls[1].resp.messages = <<>>

FetchedMessage == FetchCompleted /\ calls[1].resp.messages # <<>>

FetchedEmptyText == FetchedMessage /\ calls[1].resp.messages[1].text = <<>>

FetchedNonEmptyText == FetchedMessage /\ calls[1].resp.messages[1].text # <<>>

PostedBy(inv) == {j \in 1..Len(outbox) : outbox[j].inv = inv}

(***************************************************************************)
(* C1: when the fetch succeeds and the input channel has zero messages,    *)
(* the invocation makes neither the inference call nor the post call,      *)
(* delivers nothing, and returns the no-op outcome (200, "No new messages  *)
(* to process.").                                                          *)
(***************************************************************************)
C1_EmptyChannelIsNoOp ==
    FetchedEmptyChannel =>
        /\ ~MadeCall("invoke_model")
        /\ ~MadeCall("chat_postMessage")
        /\ PostedBy(nInv) = {}
        /\ pc \in {"check", "done"}
        /\ pc = "done" => IsNoOp(result)

C1_Witness == pc = "done" /\ FetchedEmptyChannel /\ IsNoOp(result)

(***************************************************************************)
(* C2: as soon as one step raises, no later step is called and the         *)
(* invocation returns the failure outcome: a raising call is the last call *)
(* of its invocation (a raising fetch: no inference and no post; a raising *)
(* inference: no post).                                                    *)
(***************************************************************************)
C2_RaiseAbortsLaterSteps ==
    \A i \in 1..Len(calls) :
        StepRaised(calls[i]) =>
            /\ i = Len(calls)
            /\ pc \in {"except", "done"}
            /\ pc = "done" => result.statusCode = 500
            /\ calls[i].api = "conversations_history" =>
                   ~MadeCall("invoke_model") /\ ~MadeCall("chat_postMessage")
            /\ calls[i].api = "invoke_model" => ~MadeCall("chat_postMessage")

C2_Witness ==
    /\ pc = "done"
    /\ Len(calls) = 2
    /\ ServiceRaised(calls[2])
    /\ result.statusCode = 500

(***************************************************************************)
(* C5: when SLACK_BOT_TOKEN is absent at startup the import fails before   *)
(* the clients exist and lambda_handler never runs in the process (no      *)
(* call, no post); the environment is read once, at startup, and a ready   *)
(* process holds the token that was read then.                             *)
(***************************************************************************)
C5_MissingTokenFailsFast ==
    /\ tokenReads <= 1
    /\ proc # "cold" => tokenReads = 1
    /\ proc = "ready" => slack_bot_token = environ /\ environ # "absent"
    /\ environ = "absent" =>
           /\ proc \in {"cold", "init_failed"}
           /\ slack_bot_token = "unset"
           /\ nInv = 0
           /\ pc = "idle"
           /\ Len(calls) = 0
           /\ Len(outbox) = 0

C5_Witness == environ = "absent" /\ proc = "init_failed" /\ tokenReads = 1

(***************************************************************************)
(* C6: an invocation that ends with the failure outcome (500) has          *)
(* delivered no message to the output channel, also when the step that     *)
(* failed is the post.                                                     *)
(***************************************************************************)
C6_FailureDeliversNothing ==
    (pc = "except" \/ (pc = "done" /\ result.statusCode = 500)) =>
        PostedBy(nInv) = {}

C6_Witness ==
    /\ pc = "done"
    /\ result.statusCode = 500
    /\ Len(calls) = 3
    /\ StepRaised(calls[3])

(***************************************************************************)
(* C8: within one invocation the external calls are a prefix of fetch,     *)
(* inference, post, each made at most once; the inference call follows a   *)
(* fetch that completed with a message, the post call follows an inference *)
(* call that completed, and the fetch asks the input channel for at most   *)
(* one message.                                                            *)
(***************************************************************************)
C8_CallOrder ==
    /\ Len(calls) <= 3
    /\ \A i \in 1..Len(calls) :
           calls[i].api = <<"conversations_history", "invoke_model", "chat_postMessage">>[i]
    /\ Len(calls) >= 1 =>
           /\ calls[1].req.limit = 1
           /\ calls[1].req.channel = "C091S67LDEJ"
           /\ Len(calls[1].resp.messages) <= 1
    /\ Len(calls) >= 2 => FetchedMessage
    /\ Len(calls) >= 3 => ~StepRaised(calls[2])

C8_Witness ==
    /\ pc = "done"
    /\ Len(calls) = 3
    /\ ~StepRaised(calls[3])
    /\ IsSuccess(result)

(***************************************************************************)
(* C10: the inference call is made if and only if the fetch completed and  *)
(* returned a non-empty text; a latest message whose text is the empty     *)
(* string is handled like an empty channel: no inference, no post, the     *)
(* no-op outcome.                                                          *)
(***************************************************************************)
C10_InferenceIffNonEmptyText ==
    /\ pc \in {"post", "success", "except", "done"} =>
           (MadeCall("invoke_model") <=> FetchedNonEmptyText)
    /\ pc \in {"idle", "fetch", "check", "infer"} => ~MadeCall("invoke_model")
    /\ pc = "infer" => FetchedNonEmptyText
    /\ FetchedEmptyText =>
           /\ ~MadeCall("invoke_model")
           /\ ~MadeCall("chat_postMessage")
           /\ PostedBy(nInv) = {}
           /\ pc \in {"check", "done"}
           /\ pc = "done" => IsNoOp(result)

C10_Witness == pc = "done" /\ FetchedEmptyText /\ IsNoOp(result)

(***************************************************************************)
(* C3.  Every finished invocation has returned exactly one of the three    *)
(* outcomes, and an exception raised inside the handler always leads to    *)
(* the except clause.  The failure outcome carries the description of the  *)
(* error that was raised, whatever its kind.                               *)
(***************************************************************************)
AnyStepRaised == \E i \in 1..Len(calls) : StepRaised(calls[i])

InferenceCompleted == Len(calls) >= 2 /\ ~StepRaised(calls[2])

PostCompleted == Len(calls) >= 3 /\ ~StepRaised(calls[3])

OneOfThreeOutcomes ==
    /\ raised # NoExc => pc \in {"except", "done"}
    /\ pc = "done" =>
           /\ IsSuccess(result) \/ IsNoOp(result) \/ result.statusCode = 500
           /\ ~(IsSuccess(result) /\ IsNoOp(result))
           /\ result.statusCode = 500 <=> AnyStepRaised
           /\ AnyStepRaised =>
                  /\ raised = calls[Len(calls)].exc
                  /\ IsFailure(result, calls[Len(calls)].exc)

\* C3 as stated: success exactly when the fetch returned a message and the
\* inference and post calls completed; no-op exactly when the fetch completed
\* and yielded no message; failure exactly when a step raised.
C3_AsStated ==
    /\ OneOfThreeOutcomes
    /\ pc = "done" =>
           /\ IsSuccess(result) <=>
                  (FetchedMessage /\ InferenceCompleted /\ PostCompleted)
           /\ IsNoOp(result) <=> FetchedEmptyChannel

\* C3 as amended: success exactly when the fetch returned a message with a
\* non-empty text and the inference and post calls completed; no-op exactly
\* when the fetch completed and yielded no message or a message whose text is
\* empty; failure exactly when a step raised.
C3_ThreeOutcomes ==
    /\ OneOfThreeOutcomes
    /\ pc = "done" =>
           /\ IsSuccess(result) <=>
                  (FetchedNonEmptyText /\ InferenceCompleted /\ PostCompleted)
           /\ IsNoOp(result) <=> (FetchedEmptyChannel \/ FetchedEmptyText)

C3_Witness ==
    /\ pc = "done"
    /\ AnyStepRaised
    /\ calls[Len(calls)].exc.kind = "SlackApiError"
    /\ IsFailure(result, SlackApiError)

(***************************************************************************)
(* C4: when the fetch returns the text m, the inference request carries a  *)
(* prompt that contains m; when the inference call then returns the string *)
(* s (the text of the first content segment), the one post of the          *)
(* invocation goes to the output channel, never the input channel, and its *)
(* text is the fixed prefix, a newline, ">>> " and then s.                 *)
(***************************************************************************)
PromptOf(c) == JsonLoads(c.req.body.messages[1].content[1].text)

C4_PromptAndPost ==
    /\ \A i \in 1..Len(calls) :
           calls[i].api = "invoke_model" =>
               /\ message_text.v = calls[1].resp.messages[1].text
               /\ Contains(PromptOf(calls[i]), calls[1].resp.messages[1].text)
    /\ \A i \in 1..Len(calls) :
           calls[i].api = "chat_postMessage" =>
               /\ calls[i].req.channel = "C09344CE82C"
               /\ calls[i].req.channel # "C091S67LDEJ"
               /\ Cardinality({j \in 1..Len(calls) : calls[j].api = "chat_postMessage"}) = 1
               /\ calls[2].resp.shape = "segments" =>
                      calls[i].req.text =
                          <<"\\u3010AI\\u306b\\u3088\\u308b\\u8981\\u7d04\\u3011", "\n", ">>> ">>
                              \o calls[2].resp.texts[1]
    /\ \A j \in PostedBy(nInv) :
           /\ pc \in {"success", "done"}
           /\ outbox[j].channel = calls[3].req.channel
           /\ outbox[j].text = calls[3].req.text

C4_Witness ==
    /\ pc = "done"
    /\ Len(calls) = 3
    /\ calls[1].resp.messages[1].text = <<"b", "\n", "a">>
    /\ calls[2].resp.texts = <<<<"-", "x">>, <<"y">>>>
    /\ PostedBy(nInv) # {}
    /\ outbox[Len(outbox)].text =
           <<"\\u3010AI\\u306b\\u3088\\u308b\\u8981\\u7d04\\u3011", "\n", ">>> ", "-", "x">>

(***************************************************************************)
(* C7: invoke_bedrock_model either returns a string, the text of the first *)
(* content segment of the response, or raises; it raises on a transport    *)
(* failure, on a malformed body and on a missing content field, so a       *)
(* missing or null summary is never returned and never posted.             *)
(***************************************************************************)
C7_SummaryIsStringOrError ==
    /\ \A i \in 1..Len(calls) :
           calls[i].api = "invoke_model" =>
               /\ calls[i].exc = NoExc =>
                      /\ calls[i].resp.shape = "segments"
                      /\ summary = PyStr(calls[i].resp.texts[1])
               /\ (ServiceRaised(calls[i])
                     \/ calls[i].resp.shape \in
                            {"not_json", "null", "no_content", "content_null"}) =>
                      calls[i].exc # NoExc
    /\ \A j \in 1..Len(outbox) :
           outbox[j].text #
               <<"\\u3010AI\\u306b\\u3088\\u308b\\u8981\\u7d04\\u3011", "\n", ">>> ", "None">>

(***************************************************************************)
(* C9: nothing is carried from one invocation to the next.  Two successive *)
(* invocations that receive the same answers from the services make the    *)
(* same calls and return the same outcome, and each successful one adds    *)
(* its own post: fetching the same latest message twice yields two posts.  *)
(***************************************************************************)
SameAnswers(k) ==
    \* the first k calls of the previous and of the current invocation got the
    \* same answers
    /\ k <= Len(calls)
    /\ k <= Len(prev.calls)
    /\ \A i \in 1..k :
           /\ calls[i].api = prev.calls[i].api
           /\ calls[i].resp = prev.calls[i].resp

C9_NoStateBetweenInvocations ==
    /\ pc \in {"done", "success"} =>
           Cardinality(PostedBy(nInv)) = (IF PostCompleted THEN 1 ELSE 0)
    /\ \A j \in 1..Len(outbox) : outbox[j].inv \in 1..nInv
    /\ \A inv \in 1..nInv : Cardinality(PostedBy(inv)) <= 1
    /\ (pc = "done" /\ prev.valid) =>
           /\ Cardinality(PostedBy(nInv - 1)) = (IF IsSuccess(prev.result) THEN 1 ELSE 0)
           /\ \A k \in 0..3 :
                  SameAnswers(k) =>
                      /\ Len(calls) > k <=> Len(prev.calls) > k
                      /\ Len(calls) > k =>
                             /\ calls[k + 1].api = prev.calls[k + 1].api
                             /\ calls[k + 1].req = prev.calls[k + 1].req
                      /\ (Len(calls) = k /\ Len(prev.calls) = k) =>
                             result = prev.result

C9_Witness ==
    /\ pc = "done"
    /\ prev.valid
    /\ IsSuccess(prev.result)
    /\ IsSuccess(result)
    /\ SameAnswers(3)
    /\ Len(outbox) = 2
    /\ outbox[1].text = outbox[2].text
    /\ outbox[1].inv = 1
    /\ outbox[2].inv = 2

=============================================================================
